---- MODULE Spec2Model ----
(***************************************************************************)
(* The two Cloudflare Access scripts of the repository,                    *)
(* enable_public_api.py and fix_zero_trust.py, with the Access API they    *)
(* talk to.  A run of a script is a sequence of steps, one per request()   *)
(* call; the account (applications and their policies) lives on the        *)
(* server and survives the runs.                                           *)
(***************************************************************************)
EXTENDS Integers, Sequences, FiniteSets, TLC

(* ------------------------------------------------------------------ *)
(* Bounds of the model                                                  *)
(* ------------------------------------------------------------------ *)

\* applications and policies of a small initial account, counted together
MaxSize == 4
\* script runs in one behaviour
MaxRuns == 2
\* page size the API applies to a listing whose URL names none
DefaultPerPage == 3

(* ------------------------------------------------------------------ *)
(* Constants of the scripts                                             *)
(* ------------------------------------------------------------------ *)

\* per_page of f"{BASE_URL}?per_page=100"
PerPage == 100

ADMIN_GROUP_ID == "9e16bff0-8e9d-4a7a-aaab-07541f88f8e4"
SERVICE_TOKEN_ID == "15a661a2-bc33-409d-86d9-ffcc217ffdce"

StudioDomain == "studio.raydoug.com"
ApiDomain == "api.raydoug.com"
\* the domain of the i-th application that neither script looks for
OtherDomain(i) == "app" \o ToString(i) \o ".example.com"

policy_name == "Public Access"
AllowAdmins == "Allow Admins"
AllowService == "Allow Service"
StaleName == "Macbook dual-stack Bypass"
\* a name that contains both "bypass" and "ip" once lowered
IpBypassName == "IP Bypass"

(* ------------------------------------------------------------------ *)
(* Strings: str.lower() and the `in` test on the names of the model     *)
(* ------------------------------------------------------------------ *)

Chars(s) ==
  CASE s = policy_name -> <<"P","u","b","l","i","c"," ","A","c","c","e","s","s">>
    [] s = AllowAdmins -> <<"A","l","l","o","w"," ","A","d","m","i","n","s">>
    [] s = AllowService -> <<"A","l","l","o","w"," ","S","e","r","v","i","c","e">>
    [] s = StaleName -> <<"M","a","c","b","o","o","k"," ","d","u","a","l","-",
                          "s","t","a","c","k"," ","B","y","p","a","s","s">>
    [] s = IpBypassName -> <<"I","P"," ","B","y","p","a","s","s">>
    [] s = "bypass" -> <<"b","y","p","a","s","s">>
    [] s = "ip" -> <<"i","p">>
    [] OTHER -> <<>>

LowerChar(c) ==
  CASE c = "A" -> "a" [] c = "B" -> "b" [] c = "I" -> "i" [] c = "M" -> "m"
    [] c = "P" -> "p" [] c = "S" -> "s" [] OTHER -> c

lower(cs) == [i \in 1..Len(cs) |-> LowerChar(cs[i])]

\* Python's `sub in s` on character sequences
Contains(cs, sub) ==
  \E i \in 0..(Len(cs) - Len(sub)) :
     \A j \in 1..Len(sub) : cs[i + j] = sub[j]

Min(a, b) == IF a < b THEN a ELSE b

(* ------------------------------------------------------------------ *)
(* Values                                                               *)
(* ------------------------------------------------------------------ *)

Everyone == [kind |-> "everyone", id |-> ""]
Group(g) == [kind |-> "group", id |-> g]
ServiceToken(t) == [kind |-> "service_token", id |-> t]
IpRange == [kind |-> "ip", id |-> "198.51.100.0/24"]

\* Python's None, for a variable that holds a dict or None
NoApp == [id |-> 0, name |-> "", domain |-> "", type |-> "",
          session_duration |-> "", policies |-> <<>>]
NoPolicy == [id |-> 0, name |-> "", decision |-> "", include |-> Everyone]
\* data=None of request()
NoData == [name |-> ""]

\* next((x for x in seq if P(x)), None)
RECURSIVE FirstByDomain(_, _)
FirstByDomain(seq, domain) ==
  IF seq = <<>> THEN NoApp
  ELSE IF Head(seq).domain = domain THEN Head(seq)
  ELSE FirstByDomain(Tail(seq), domain)

RECURSIVE FirstByName(_, _)
FirstByName(seq, name) ==
  IF seq = <<>> THEN NoPolicy
  ELSE IF Head(seq).name = name THEN Head(seq)
  ELSE FirstByName(Tail(seq), name)

\* any(p['name'] == name for p in policies)
AnyNamed(seq, name) == \E i \in 1..Len(seq) : seq[i].name = name

(* ------------------------------------------------------------------ *)
(* URLs and payloads of the scripts                                     *)
(* ------------------------------------------------------------------ *)

\* BASE_URL: the applications collection, no query string
BASE_URL == [path |-> "apps", app |-> 0, policy |-> 0, per_page |-> 0]
\* f"{BASE_URL}?per_page=100"
AppsPerPageUrl == [path |-> "apps", app |-> 0, policy |-> 0, per_page |-> PerPage]
\* f"{BASE_URL}/{app['id']}/policies"
PoliciesUrl(a) == [path |-> "policies", app |-> a, policy |-> 0, per_page |-> 0]
\* f"{BASE_URL}/{app['id']}/policies/{policy['id']}"
PolicyUrl(a, p) == [path |-> "policy", app |-> a, policy |-> p, per_page |-> 0]

\* the payload with the decision of the other policies
PublicAccessPayload_Allow ==
  [name |-> policy_name, decision |-> "allow", include |-> Everyone]

\* body of the PUT and of the POST of enable_public_api.main
PublicAccessPayload ==
  [name |-> policy_name, decision |-> "bypass", include |-> Everyone]

\* body of the application POST of fix_zero_trust.main
StudioAppPayload ==
  [name |-> "Supabase Studio", domain |-> StudioDomain,
   type |-> "self_hosted", session_duration |-> "24h"]

AllowAdminsPayload ==
  [name |-> AllowAdmins, decision |-> "allow", include |-> Group(ADMIN_GROUP_ID)]

AllowServicePayload ==
  [name |-> AllowService, decision |-> "allow",
   include |-> ServiceToken(SERVICE_TOKEN_ID)]

(* ------------------------------------------------------------------ *)
(* The Access API (section 6 of the specification)                      *)
(* ------------------------------------------------------------------ *)

json_dumps(v) == [text |-> "json", of |-> v]
Garbage == [text |-> "<html>", of |-> <<>>]

\* a listing returns one page: per_page items, or the default when the URL names none
PageOf(seq, url) ==
  SubSeq(seq, 1, Min(Len(seq), IF url.per_page = 0 THEN DefaultPerPage ELSE url.per_page))

AppIndex(account, a) == CHOOSE i \in 1..Len(account) : account[i].id = a

NewPolicy(id, d) ==
  [id |-> id, name |-> d.name, decision |-> d.decision, include |-> d.include]

NewApp(id, d) ==
  [id |-> id, name |-> d.name, domain |-> d.domain, type |-> d.type,
   session_duration |-> d.session_duration, policies |-> <<>>]

RECURSIVE WithoutId(_, _)
WithoutId(seq, id) ==
  IF seq = <<>> THEN <<>>
  ELSE IF Head(seq).id = id THEN WithoutId(Tail(seq), id)
  ELSE <<Head(seq)>> \o WithoutId(Tail(seq), id)

ReplaceId(seq, id, d) ==
  [i \in 1..Len(seq) |-> IF seq[i].id = id THEN NewPolicy(id, d) ELSE seq[i]]

\* the application, and the policy, a URL names exist in the account
Known(account, url) ==
  /\ url.path # "apps" => \E i \in 1..Len(account) : account[i].id = url.app
  /\ url.path = "policy" =>
        \E i \in 1..Len(account) :
           /\ account[i].id = url.app
           /\ \E j \in 1..Len(account[i].policies) :
                 account[i].policies[j].id = url.policy

\* what the API does with a request it accepts: the account after it, the next
\* identifier, and the `result` of its answer
Serve(account, ids, method, url, body) ==
  CASE method = "GET" /\ url.path = "apps" ->
         [apps |-> account, nextId |-> ids, result |-> PageOf(account, url)]
    [] method = "POST" /\ url.path = "apps" ->
         [apps |-> Append(account, NewApp(ids, body.of)), nextId |-> ids + 1,
          result |-> NewApp(ids, body.of)]
    [] method = "GET" /\ url.path = "policies" ->
         [apps |-> account, nextId |-> ids,
          result |-> account[AppIndex(account, url.app)].policies]
    [] method = "POST" /\ url.path = "policies" ->
         LET i == AppIndex(account, url.app) IN
         [apps |-> [account EXCEPT ![i].policies = Append(@, NewPolicy(ids, body.of))],
          nextId |-> ids + 1, result |-> NewPolicy(ids, body.of)]
    [] method = "PUT" /\ url.path = "policy" ->
         LET i == AppIndex(account, url.app) IN
         [apps |-> [account EXCEPT ![i].policies = ReplaceId(@, url.policy, body.of)],
          nextId |-> ids, result |-> NewPolicy(url.policy, body.of)]
    [] method = "DELETE" /\ url.path = "policy" ->
         LET i == AppIndex(account, url.app) IN
         [apps |-> [account EXCEPT ![i].policies = WithoutId(@, url.policy)],
          nextId |-> ids, result |-> [id |-> url.policy]]

\* what can happen to one request on its way: the server answers it, answers it
\* with an error status, is not reached, or answers with a body that is no JSON
NoFault == [kind |-> "none", body |-> ""]
ErrorBodies == {"forbidden", "conflict"}
Faults ==
  {NoFault, [kind |-> "url_error", body |-> ""], [kind |-> "bad_body", body |-> ""]}
  \cup {[kind |-> "http_error", body |-> b] : b \in ErrorBodies}

\* urllib.request.urlopen(req): the account afterwards and what the call yields
urlopen(account, ids, req, f) ==
  LET s == Serve(account, ids, req.method, req.url, req.data) IN
  CASE f.kind \in {"none", "bad_body"} /\ ~Known(account, req.url) ->
         [apps |-> account, nextId |-> ids,
          net |-> [kind |-> "HTTPError", body |-> "not_found"]]
    [] f.kind = "none" ->
         [apps |-> s.apps, nextId |-> s.nextId,
          net |-> [kind |-> "response", body |-> json_dumps([result |-> s.result])]]
    [] f.kind = "bad_body" ->
         [apps |-> s.apps, nextId |-> s.nextId,
          net |-> [kind |-> "response", body |-> Garbage]]
    [] f.kind = "http_error" ->
         [apps |-> account, nextId |-> ids,
          net |-> [kind |-> "HTTPError", body |-> f.body]]
    [] f.kind = "url_error" ->
         [apps |-> account, nextId |-> ids,
          net |-> [kind |-> "URLError", body |-> ""]]

(* ------------------------------------------------------------------ *)
(* request(method, url, data)                                           *)
(* ------------------------------------------------------------------ *)

NoBody == [text |-> "", of |-> <<>>]
NoLog == [method |-> "", url |-> BASE_URL, body |-> ""]

\* urllib.request.Request(...); `if data: req.data = json.dumps(data)`
Request(method, url, data) ==
  [method |-> method, url |-> url,
   data |-> IF data # NoData THEN json_dumps(data) ELSE NoBody]

\* request() with `raise` in its except clause
request_Reraise(method, url, net) ==
  IF net.kind = "response"
  THEN IF net.body.text = "json"
       THEN [kind |-> "value", value |-> net.body.of, exc |-> "", log |-> NoLog]
       ELSE [kind |-> "raise", value |-> <<>>, exc |-> "JSONDecodeError", log |-> NoLog]
  ELSE [kind |-> "raise", value |-> <<>>, exc |-> net.kind,
        log |-> [method |-> method, url |-> url, body |-> net.body]]

\* request() with `except Exception`
request_CatchAll(method, url, net) ==
  IF net.kind = "response" /\ net.body.text = "json"
  THEN [kind |-> "value", value |-> net.body.of, exc |-> "", log |-> NoLog]
  ELSE [kind |-> "None", value |-> <<>>, exc |-> "",
        log |-> [method |-> method, url |-> url, body |-> net.body]]

\* the try/except of request(): what the call gives its caller for what urlopen
\* yielded.  kind is "value" (a decoded body), "None", or "raise"
request(method, url, net) ==
  IF net.kind = "response"
  THEN IF net.body.text = "json"
       THEN [kind |-> "value", value |-> net.body.of, exc |-> "", log |-> NoLog]
       ELSE [kind |-> "raise", value |-> <<>>, exc |-> "JSONDecodeError", log |-> NoLog]
  ELSE IF net.kind = "HTTPError"
       THEN [kind |-> "None", value |-> <<>>, exc |-> "",
             log |-> [method |-> method, url |-> url, body |-> net.body]]
       ELSE [kind |-> "raise", value |-> <<>>, exc |-> net.kind, log |-> NoLog]

(* ------------------------------------------------------------------ *)
(* State                                                                *)
(* ------------------------------------------------------------------ *)

VARIABLES
  apps,             \* the account on the server: applications with their policies
  nextId,           \* the identifier the server gives the next object it creates
  script,           \* the script of the current run: "enable", "fix" or ""
  pc,               \* where the run is: the request it issues next, "done", "crashed"
  runs,             \* runs started so far
  fault,            \* the exception that ended a crashed run
  printed,          \* the last progress line the run printed
  api_app,          \* enable_public_api.main: api_app
  studio_app,       \* fix_zero_trust.main: studio_app
  policies,         \* main: policies, the listing both scripts decide on
  existing_policy,  \* enable_public_api.main: existing_policy
  todo,             \* fix_zero_trust.main: what `for app in apps` has left
  app_policies,     \* fix_zero_trust.main: what `for policy in app_policies` has left
  start,            \* the account when the current run started
  calls,            \* the POST, PUT and DELETE requests of the current run
  gets,             \* the GET requests of the current run, by path
  last,             \* the last request() call of the current run and its outcome
  prev              \* the run before the current one: script, end, account at its start

server == <<apps, nextId>>
locals == <<api_app, studio_app, policies, existing_policy, todo, app_policies>>
history == <<start, calls, gets, last, prev>>
vars == <<apps, nextId, script, pc, runs, fault, printed, api_app, studio_app,
          policies, existing_policy, todo, app_policies, start, calls, gets, last,
          prev>>

NoLast ==
  [site |-> "", method |-> "", url |-> BASE_URL, net |-> "", body |-> "",
   ret |-> "", exc |-> "", log |-> NoLog]
NoGets == [apps |-> 0, policies |-> 0]
NoPrev == [script |-> "", end |-> "", start |-> <<>>]

(* ------------------------------------------------------------------ *)
(* Initial accounts                                                     *)
(* ------------------------------------------------------------------ *)

InitNames == {policy_name, AllowAdmins, AllowService, StaleName, IpBypassName}

\* a policy some administrator made earlier, by name
InitPolicy(id, name) ==
  [id |-> id, name |-> name,
   decision |-> IF name = policy_name THEN "allow" ELSE "bypass",
   include |-> CASE name = policy_name -> Group("staff")
                 [] name = AllowAdmins -> Everyone
                 [] name = AllowService -> ServiceToken(SERVICE_TOKEN_ID)
                 [] OTHER -> IpRange]

\* the names of P that owner o gives application i, in order
RECURSIVE Owned(_, _, _)
Owned(P, o, i) ==
  IF P = <<>> THEN <<>>
  ELSE (IF Head(o) = i THEN <<Head(P)>> ELSE <<>>) \o Owned(Tail(P), Tail(o), i)

InitApp(i, domain, names) ==
  [id |-> i, name |-> "App", domain |-> domain, type |-> "self_hosted",
   session_duration |-> "24h",
   policies |-> [j \in 1..Len(names) |-> InitPolicy(1000 + 10 * i + j, names[j])]]

\* what n applications protect: a domain is protected by one application
Domains(n) ==
  {d \in [1..n -> {StudioDomain, ApiDomain, "other"}] :
     \A i, j \in 1..n : (d[i] = d[j] /\ d[i] # "other") => i = j}

DomainAt(d, i) == IF d[i] = "other" THEN OtherDomain(i) ELSE d[i]

\* the account of n applications in which owner o spreads the k policies named P
SmallAccount(n, k, d, P, o) ==
  [i \in 1..n |-> InitApp(i, DomainAt(d, i), Owned(P, o, i))]

\* n applications of other domains, without policies
Filler(n) == [i \in 1..n |-> InitApp(i, OtherDomain(i), <<>>)]

\* an account with one application more than a page of n holds
LargeAccount(n, d, names) == Filler(n) \o <<InitApp(n + 1, d, names)>>

InitAccount ==
  \/ \E n \in 0..MaxSize, k \in 0..MaxSize :
       /\ n + k <= MaxSize
       /\ \E d \in Domains(n), P \in [1..k -> InitNames],
             o \in [1..k -> 1..n] :
               apps = SmallAccount(n, k, d, P, o)
  \/ \E n \in {DefaultPerPage, PerPage}, d \in {StudioDomain, ApiDomain},
        names \in {<<>>} \cup {<<x>> : x \in InitNames} :
            apps = LargeAccount(n, d, names)

Init ==
  /\ InitAccount
  /\ nextId = 5000
  /\ script = ""
  /\ pc = "idle"
  /\ runs = 0
  /\ fault = ""
  /\ printed = ""
  /\ api_app = NoApp
  /\ studio_app = NoApp
  /\ policies = <<>>
  /\ existing_policy = NoPolicy
  /\ todo = <<>>
  /\ app_policies = <<>>
  /\ start = apps
  /\ calls = <<>>
  /\ gets = NoGets
  /\ last = NoLast
  /\ prev = NoPrev

(* ------------------------------------------------------------------ *)
(* Steps shared by the two scripts                                      *)
(* ------------------------------------------------------------------ *)

FirstPc(s) == IF s = "enable" THEN "en_list_apps" ELSE "fx_list_apps"

\* python3 <script>.py: a new process, once the one before has ended
StartRun(s) ==
  /\ pc \in {"idle", "done", "crashed"}
  /\ runs < MaxRuns
  /\ script' = s
  /\ pc' = FirstPc(s)
  /\ runs' = runs + 1
  /\ fault' = ""
  /\ printed' = "banner"
  /\ api_app' = NoApp
  /\ studio_app' = NoApp
  /\ policies' = <<>>
  /\ existing_policy' = NoPolicy
  /\ todo' = <<>>
  /\ app_policies' = <<>>
  /\ start' = apps
  /\ calls' = <<>>
  /\ gets' = NoGets
  /\ last' = NoLast
  /\ prev' = [script |-> script, end |-> pc, start |-> start]
  /\ UNCHANGED server

\* one request() call at `site`: x is what urlopen did, r what request() gave back
Issued(site, req, f, x, r) ==
  /\ apps' = x.apps
  /\ nextId' = x.nextId
  /\ last' = [site |-> site, method |-> req.method, url |-> req.url,
              net |-> x.net.kind,
              body |-> IF x.net.kind = "response" THEN x.net.body.text ELSE x.net.body,
              ret |-> r.kind,
              exc |-> r.exc, log |-> r.log]
  /\ calls' = IF req.method = "GET" THEN calls
              ELSE Append(calls, [method |-> req.method, url |-> req.url,
                                  name |-> IF req.data = NoBody THEN ""
                                           ELSE req.data.of.name])
  /\ gets' = IF req.method = "GET" THEN [gets EXCEPT ![req.url.path] = @ + 1] ELSE gets
  /\ UNCHANGED <<start, prev, script, runs>>

\* main() inside a try/except that swallows the exception
Crash_Swallowed(exc) ==
  /\ pc' = "done"
  /\ fault' = ""
  /\ UNCHANGED <<printed, locals>>

\* an exception nothing catches: the traceback, and the process ends
Crash(exc) ==
  /\ pc' = "crashed"
  /\ fault' = exc
  /\ UNCHANGED <<printed, locals>>

\* request(...)['result'] : subscripting None raises TypeError
Subscript(r) == IF r.kind = "None" THEN "TypeError" ELSE ""

(* ------------------------------------------------------------------ *)
(* enable_public_api.main                                               *)
(* ------------------------------------------------------------------ *)

\* main without the early return
AfterFind_NoReturn(found) == "en_list_policies"

\* main without the update branch
AfterLookup_AlwaysCreate(found) == "en_post"

\* if not api_app: print(...); return
AfterFind(found) == IF found = NoApp THEN "done" ELSE "en_list_policies"

\* if existing_policy: PUT ... else: POST ...
AfterLookup(found) == IF found # NoPolicy THEN "en_put" ELSE "en_post"

\* apps = request("GET", f"{BASE_URL}?per_page=100")['result']; api_app = next(...)
EnListApps(f) ==
  /\ script = "enable" /\ pc = "en_list_apps"
  /\ LET req == Request("GET", AppsPerPageUrl, NoData)
         x == urlopen(apps, nextId, req, f)
         r == request(req.method, req.url, x.net)
     IN /\ Issued("en_list_apps", req, f, x, r)
        /\ IF r.kind = "raise" THEN Crash(r.exc)
           ELSE IF Subscript(r) # "" THEN Crash(Subscript(r))
           ELSE LET found == FirstByDomain(r.value.result, ApiDomain) IN
                /\ api_app' = found
                /\ pc' = AfterFind(found)
                /\ printed' = IF found = NoApp THEN "not_found" ELSE "found"
                /\ UNCHANGED <<fault, studio_app, policies, existing_policy, todo,
                               app_policies>>

\* policies = request("GET", .../policies)['result']; existing_policy = next(...)
EnListPolicies(f) ==
  /\ script = "enable" /\ pc = "en_list_policies"
  /\ LET req == Request("GET", PoliciesUrl(api_app.id), NoData)
         x == urlopen(apps, nextId, req, f)
         r == request(req.method, req.url, x.net)
     IN /\ Issued("en_list_policies", req, f, x, r)
        /\ IF r.kind = "raise" THEN Crash(r.exc)
           ELSE IF Subscript(r) # "" THEN Crash(Subscript(r))
           ELSE LET found == FirstByName(r.value.result, policy_name) IN
                /\ policies' = r.value.result
                /\ existing_policy' = found
                /\ pc' = AfterLookup(found)
                /\ printed' = "current_policies"
                /\ UNCHANGED <<fault, api_app, studio_app, todo, app_policies>>

\* if existing_policy: request("PUT", .../policies/{existing_policy['id']}, {...})
EnPut(f) ==
  /\ script = "enable" /\ pc = "en_put"
  /\ LET req == Request("PUT", PolicyUrl(api_app.id, existing_policy.id),
                        PublicAccessPayload)
         x == urlopen(apps, nextId, req, f)
         r == request(req.method, req.url, x.net)
     IN /\ Issued("en_put", req, f, x, r)
        /\ IF r.kind = "raise" THEN Crash(r.exc)
           ELSE /\ pc' = "done"
                /\ printed' = "success"
                /\ UNCHANGED <<fault, locals>>

\* else: request("POST", .../policies, {...})
EnPost(f) ==
  /\ script = "enable" /\ pc = "en_post"
  /\ LET req == Request("POST", PoliciesUrl(api_app.id), PublicAccessPayload)
         x == urlopen(apps, nextId, req, f)
         r == request(req.method, req.url, x.net)
     IN /\ Issued("en_post", req, f, x, r)
        /\ IF r.kind = "raise" THEN Crash(r.exc)
           ELSE /\ pc' = "done"
                /\ printed' = "success"
                /\ UNCHANGED <<fault, locals>>

(* ------------------------------------------------------------------ *)
(* fix_zero_trust.main                                                  *)
(* ------------------------------------------------------------------ *)

\* where main goes once `policies` is known, and once "Allow Admins" is dealt with
AfterAdmins(ps) ==
  IF ~AnyNamed(ps, AllowService) THEN "fx_post_service" ELSE "fx_refresh_apps"
AfterListPolicies(ps) ==
  IF ~AnyNamed(ps, AllowAdmins) THEN "fx_post_admins" ELSE AfterAdmins(ps)

\* a cleanup that goes by the decision of a policy, not by its name
CleanupDecision_ByDecision(policy) ==
  IF policy.decision = "bypass" THEN "delete" ELSE "skip"

\* the if/elif of the cleanup loop, for one policy
CleanupDecision(policy) ==
  IF policy.name = StaleName THEN "delete"
  ELSE IF Contains(lower(Chars(policy.name)), Chars("bypass"))
          /\ Contains(lower(Chars(policy.name)), Chars("ip")) THEN "pass"
  ELSE "skip"

\* the inner loop up to its next DELETE
RECURSIVE SkipToDelete(_)
SkipToDelete(ps) ==
  IF ps = <<>> THEN <<>>
  ELSE IF CleanupDecision(Head(ps)) = "delete" THEN ps
  ELSE SkipToDelete(Tail(ps))

\* the outer loop moves to its next application, or main ends
NextApp ==
  /\ todo' = Tail(todo)
  /\ app_policies' = <<>>
  /\ pc' = IF Tail(todo) = <<>> THEN "done" ELSE "fx_app_policies"
  /\ printed' = IF Tail(todo) = <<>> THEN "all_done" ELSE "checking_app"

\* if not studio_app: create it, else: it already exists
AfterFindStudio(found) == IF found = NoApp THEN "fx_create_app" ELSE "fx_list_policies"

\* apps = request("GET", BASE_URL)['result']; studio_app = next(...)
FxListApps(f) ==
  /\ script = "fix" /\ pc = "fx_list_apps"
  /\ LET req == Request("GET", BASE_URL, NoData)
         x == urlopen(apps, nextId, req, f)
         r == request(req.method, req.url, x.net)
     IN /\ Issued("fx_list_apps", req, f, x, r)
        /\ IF r.kind = "raise" THEN Crash(r.exc)
           ELSE IF Subscript(r) # "" THEN Crash(Subscript(r))
           ELSE LET found == FirstByDomain(r.value.result, StudioDomain) IN
                /\ studio_app' = found
                /\ pc' = AfterFindStudio(found)
                /\ printed' = IF found = NoApp THEN "creating_app" ELSE "app_exists"
                /\ UNCHANGED <<fault, api_app, policies, existing_policy, todo,
                               app_policies>>

\* if not studio_app: studio_app = request("POST", BASE_URL, {...})['result']
FxCreateApp(f) ==
  /\ script = "fix" /\ pc = "fx_create_app"
  /\ LET req == Request("POST", BASE_URL, StudioAppPayload)
         x == urlopen(apps, nextId, req, f)
         r == request(req.method, req.url, x.net)
     IN /\ Issued("fx_create_app", req, f, x, r)
        /\ IF r.kind = "raise" THEN Crash(r.exc)
           ELSE IF Subscript(r) # "" THEN Crash(Subscript(r))
           ELSE /\ studio_app' = r.value.result
                /\ pc' = "fx_list_policies"
                /\ printed' = "created_app"
                /\ UNCHANGED <<fault, api_app, policies, existing_policy, todo,
                               app_policies>>

\* policies = request("GET", f"{BASE_URL}/{studio_app['id']}/policies")['result']
FxListPolicies(f) ==
  /\ script = "fix" /\ pc = "fx_list_policies"
  /\ LET req == Request("GET", PoliciesUrl(studio_app.id), NoData)
         x == urlopen(apps, nextId, req, f)
         r == request(req.method, req.url, x.net)
     IN /\ Issued("fx_list_policies", req, f, x, r)
        /\ IF r.kind = "raise" THEN Crash(r.exc)
           ELSE IF Subscript(r) # "" THEN Crash(Subscript(r))
           ELSE /\ policies' = r.value.result
                /\ pc' = AfterListPolicies(r.value.result)
                /\ printed' = "configuring"
                /\ UNCHANGED <<fault, api_app, studio_app, existing_policy, todo,
                               app_policies>>

\* if not any(p['name'] == "Allow Admins" ...): request("POST", .../policies, {...})
FxPostAdmins(f) ==
  /\ script = "fix" /\ pc = "fx_post_admins"
  /\ LET req == Request("POST", PoliciesUrl(studio_app.id), AllowAdminsPayload)
         x == urlopen(apps, nextId, req, f)
         r == request(req.method, req.url, x.net)
     IN /\ Issued("fx_post_admins", req, f, x, r)
        /\ IF r.kind = "raise" THEN Crash(r.exc)
           ELSE /\ pc' = AfterAdmins(policies)
                /\ printed' = "adding_admins"
                /\ UNCHANGED <<fault, locals>>

\* if not any(p['name'] == "Allow Service" ...): request("POST", .../policies, {...})
FxPostService(f) ==
  /\ script = "fix" /\ pc = "fx_post_service"
  /\ LET req == Request("POST", PoliciesUrl(studio_app.id), AllowServicePayload)
         x == urlopen(apps, nextId, req, f)
         r == request(req.method, req.url, x.net)
     IN /\ Issued("fx_post_service", req, f, x, r)
        /\ IF r.kind = "raise" THEN Crash(r.exc)
           ELSE /\ pc' = "fx_refresh_apps"
                /\ printed' = "adding_service"
                /\ UNCHANGED <<fault, locals>>

\* apps = request("GET", f"{BASE_URL}?per_page=100")['result']; for app in apps:
FxRefreshApps(f) ==
  /\ script = "fix" /\ pc = "fx_refresh_apps"
  /\ LET req == Request("GET", AppsPerPageUrl, NoData)
         x == urlopen(apps, nextId, req, f)
         r == request(req.method, req.url, x.net)
     IN /\ Issued("fx_refresh_apps", req, f, x, r)
        /\ IF r.kind = "raise" THEN Crash(r.exc)
           ELSE IF Subscript(r) # "" THEN Crash(Subscript(r))
           ELSE LET page == r.value.result IN
                /\ todo' = [i \in 1..Len(page) |-> page[i].id]
                /\ pc' = IF page = <<>> THEN "done" ELSE "fx_app_policies"
                /\ printed' = IF page = <<>> THEN "all_done" ELSE "checking_app"
                /\ UNCHANGED <<fault, api_app, studio_app, policies, existing_policy,
                               app_policies>>

\* app_policies = request("GET", f"{BASE_URL}/{app['id']}/policies")['result'];
\* for policy in app_policies: up to the first DELETE
FxAppPolicies(f) ==
  /\ script = "fix" /\ pc = "fx_app_policies"
  /\ LET req == Request("GET", PoliciesUrl(Head(todo)), NoData)
         x == urlopen(apps, nextId, req, f)
         r == request(req.method, req.url, x.net)
     IN /\ Issued("fx_app_policies", req, f, x, r)
        /\ IF r.kind = "raise" THEN Crash(r.exc)
           ELSE IF Subscript(r) # "" THEN Crash(Subscript(r))
           ELSE LET rest == SkipToDelete(r.value.result) IN
                /\ IF rest # <<>>
                   THEN /\ app_policies' = rest
                        /\ pc' = "fx_delete"
                        /\ printed' = "deleting"
                        /\ todo' = todo
                   ELSE NextApp
                /\ UNCHANGED <<fault, api_app, studio_app, policies, existing_policy>>

\* request("DELETE", f"{BASE_URL}/{app['id']}/policies/{policy['id']}"), and the
\* inner loop up to its next DELETE
FxDelete(f) ==
  /\ script = "fix" /\ pc = "fx_delete"
  /\ LET req == Request("DELETE", PolicyUrl(Head(todo), Head(app_policies).id), NoData)
         x == urlopen(apps, nextId, req, f)
         r == request(req.method, req.url, x.net)
     IN /\ Issued("fx_delete", req, f, x, r)
        /\ IF r.kind = "raise" THEN Crash(r.exc)
           ELSE LET rest == SkipToDelete(Tail(app_policies)) IN
                /\ IF rest # <<>>
                   THEN /\ app_policies' = rest
                        /\ pc' = "fx_delete"
                        /\ printed' = "deleting"
                        /\ todo' = todo
                   ELSE NextApp
                /\ UNCHANGED <<fault, api_app, studio_app, policies, existing_policy>>

(* ------------------------------------------------------------------ *)
(* Specifications                                                       *)
(* ------------------------------------------------------------------ *)

Step(f) ==
  \/ EnListApps(f)
  \/ EnListPolicies(f)
  \/ EnPut(f)
  \/ EnPost(f)
  \/ FxListApps(f)
  \/ FxCreateApp(f)
  \/ FxListPolicies(f)
  \/ FxPostAdmins(f)
  \/ FxPostService(f)
  \/ FxRefreshApps(f)
  \/ FxAppPolicies(f)
  \/ FxDelete(f)

\* the API answers every request
Next ==
  \/ \E s \in {"enable", "fix"} : StartRun(s)
  \/ Step(NoFault)

\* one run in which any request may fail
NextFault ==
  \/ \E s \in {"enable", "fix"} : pc = "idle" /\ StartRun(s)
  \/ \E f \in Faults : Step(f)

Spec == Init /\ [][Next]_vars

SpecFault == Init /\ [][NextFault]_vars

(* ------------------------------------------------------------------ *)
(* Vocabulary of the properties                                         *)
(* ------------------------------------------------------------------ *)

HasApp(account, a) == \E i \in 1..Len(account) : account[i].id = a
AppOf(account, a) == account[AppIndex(account, a)]
CountNamed(ps, name) == Cardinality({i \in 1..Len(ps) : ps[i].name = name})
Ids(ps) == [i \in 1..Len(ps) |-> ps[i].id]
HasPolicy(ps, p) == \E i \in 1..Len(ps) : ps[i] = p

\* the application enable_public_api.main works on, given the account
Target(account) == FirstByDomain(PageOf(account, AppsPerPageUrl), ApiDomain)
StudioApps(account) == {i \in 1..Len(account) : account[i].domain = StudioDomain}
RangeOf(seq) == {seq[i] : i \in 1..Len(seq)}

ReadSites ==
  {"en_list_apps", "en_list_policies", "fx_list_apps", "fx_create_app",
   "fx_list_policies", "fx_refresh_apps", "fx_app_policies"}
WriteSites == {"en_put", "en_post", "fx_post_admins", "fx_post_service", "fx_delete"}

(* ------------------------------------------------------------------ *)
(* enable_public_api                                                    *)
(* ------------------------------------------------------------------ *)

\* C1: a run of the enabler that starts with the target application listed and no
\* policy named "Public Access" on it leaves exactly one such policy there, with
\* decision "bypass" and include rule "everyone", and the run after it finds that
\* policy (existing_policy) and goes on to update it.
C1_SubsequentRunFindsPublicAccess ==
  /\ (/\ script = "enable" /\ pc = "done"
      /\ Target(start) # NoApp
      /\ ~AnyNamed(Target(start).policies, policy_name))
     => LET now == AppOf(apps, Target(start).id).policies IN
        /\ CountNamed(now, policy_name) = 1
        /\ FirstByName(now, policy_name).decision = "bypass"
        /\ FirstByName(now, policy_name).include = Everyone
  /\ (/\ script = "enable" /\ pc \in {"en_put", "en_post"}
      /\ prev.script = "enable" /\ prev.end = "done"
      /\ Target(prev.start) # NoApp
      /\ ~AnyNamed(Target(prev.start).policies, policy_name))
     => /\ api_app.id = Target(prev.start).id
        /\ pc = "en_put"
        /\ existing_policy.name = policy_name
        /\ existing_policy.decision = "bypass"
        /\ existing_policy.include = Everyone

C1_Witness ==
  /\ script = "enable" /\ pc = "en_put"
  /\ prev.script = "enable" /\ prev.end = "done"
  /\ Target(prev.start) # NoApp
  /\ Target(prev.start).policies # <<>>
  /\ ~AnyNamed(Target(prev.start).policies, policy_name)
  /\ existing_policy.decision = "bypass"

\* C2: in a run of the enabler that starts with a policy named "Public Access" on
\* the target application, every write is a PUT to the identifier of the first such
\* policy, there is at most one, a run that ends has issued it, no POST is issued,
\* the identifiers of the application's policies stay what they were and the
\* number of policies named "Public Access" does not grow; an accepted PUT leaves
\* the policy with decision "bypass" and include rule "everyone".
C2_UpdateInPlace ==
  (/\ script = "enable"
   /\ Target(start) # NoApp
   /\ AnyNamed(Target(start).policies, policy_name))
  => LET t == Target(start)
         e == FirstByName(t.policies, policy_name)
         now == AppOf(apps, t.id).policies
     IN /\ \A i \in 1..Len(calls) :
             calls[i].method = "PUT" /\ calls[i].url = PolicyUrl(t.id, e.id)
        /\ Len(calls) <= 1
        /\ pc = "done" => Len(calls) = 1
        /\ Ids(now) = Ids(t.policies)
        /\ CountNamed(now, policy_name) <= CountNamed(t.policies, policy_name)
        /\ (calls # <<>> /\ last.net = "response")
           => HasPolicy(now, NewPolicy(e.id, PublicAccessPayload))

C2_Witness ==
  /\ script = "enable" /\ pc = "done"
  /\ Target(start) # NoApp
  /\ CountNamed(Target(start).policies, policy_name) = 2
  /\ Len(calls) = 1 /\ calls[1].method = "PUT"
  /\ last.ret = "value"
  /\ AppOf(apps, Target(start).id).policies # Target(start).policies

\* C5: when the listing is answered and holds no application with domain
\* api.raydoug.com, the enabler prints that the application was not found and
\* returns: the run ends without a fault, having issued the one GET of the
\* applications, no GET of policies and no POST, PUT or DELETE, and the account is
\* what it was.
C5_AbsentTargetNoWrites ==
  (/\ script = "enable"
   /\ Target(start) = NoApp
   /\ last.site = "en_list_apps" /\ last.ret = "value")
  => /\ pc = "done"
     /\ printed = "not_found"
     /\ fault = ""
     /\ calls = <<>>
     /\ gets = [apps |-> 1, policies |-> 0]
     /\ apps = start

C5_Witness ==
  /\ script = "enable" /\ pc = "done" /\ printed = "not_found"
  /\ Target(start) = NoApp
  /\ apps # <<>>
  /\ last.site = "en_list_apps" /\ last.ret = "value"

(* ------------------------------------------------------------------ *)
(* request()                                                            *)
(* ------------------------------------------------------------------ *)

\* C6: when the API answers a request with an HTTP error status, request() prints
\* the method, the URL and the body of the answer and returns None; it raises
\* nothing.
C6_HttpErrorLoggedAndNone ==
  last.net = "HTTPError"
  => /\ last.ret = "None"
     /\ last.exc = ""
     /\ last.log = [method |-> last.method, url |-> last.url, body |-> last.body]

C6_Witness ==
  /\ last.net = "HTTPError" /\ last.method = "DELETE" /\ last.body = "conflict"
  /\ last.ret = "None"

TheStudio(account) == account[CHOOSE i \in StudioApps(account) : TRUE]
LacksBoth(account) ==
  /\ Cardinality(StudioApps(account)) = 1
  /\ ~AnyNamed(TheStudio(account).policies, AllowAdmins)
  /\ ~AnyNamed(TheStudio(account).policies, AllowService)
PolicyPosts ==
  {i \in 1..Len(calls) : calls[i].method = "POST" /\ calls[i].url.path = "policies"}

\* C3: when the account has its Supabase Studio application and that application
\* lacks "Allow Admins" and "Allow Service", a run of the fixer creates each of
\* the two on it once, so that the application has exactly one policy of each
\* name when the run ends, and the run after it creates no policy.
C3_Original ==
  /\ (script = "fix" /\ pc = "done" /\ LacksBoth(start))
     => LET now == AppOf(apps, TheStudio(start).id).policies IN
        /\ CountNamed(now, AllowAdmins) = 1
        /\ CountNamed(now, AllowService) = 1
        /\ Cardinality(PolicyPosts) = 2
  /\ (/\ script = "fix"
      /\ prev.script = "fix" /\ prev.end = "done" /\ LacksBoth(prev.start))
     => PolicyPosts = {}

\* C4: when the cleanup phase has run to its end, no application of the account
\* has a policy named "Macbook dual-stack Bypass", every DELETE of the run named a
\* policy that had this name, and every policy of another name is where it was,
\* unchanged.
C4_Original ==
  (script = "fix" /\ pc = "done")
  => /\ \A i \in 1..Len(apps) : ~AnyNamed(apps[i].policies, StaleName)
     /\ \A i \in 1..Len(calls) :
          calls[i].method = "DELETE" =>
            \E j \in 1..Len(start) :
               /\ start[j].id = calls[i].url.app
               /\ \E k \in 1..Len(start[j].policies) :
                    /\ start[j].policies[k].id = calls[i].url.policy
                    /\ start[j].policies[k].name = StaleName
     /\ \A j \in 1..Len(start) :
          \A k \in 1..Len(start[j].policies) :
             start[j].policies[k].name # StaleName =>
                HasPolicy(AppOf(apps, start[j].id).policies, start[j].policies[k])

\* C8: phase 1 of the fixer issues the application POST if and only if the
\* account has no application with domain studio.raydoug.com, so that a run that
\* starts with such an application leaves their number what it was and a run that
\* starts without one leaves exactly one.
C8_Original ==
  (script = "fix" /\ pc \notin {"fx_list_apps", "fx_create_app", "crashed"})
  => /\ (\E i \in 1..Len(calls) :
            calls[i].method = "POST" /\ calls[i].url.path = "apps")
        <=> StudioApps(start) = {}
     /\ Cardinality(StudioApps(apps)) =
           IF StudioApps(start) = {} THEN 1 ELSE Cardinality(StudioApps(start))

\* C9: an HTTP error on a request whose result the script subscripts (the
\* listings and the application POST) ends the run there with a TypeError, and a
\* run that has ended on an exception issued no request after the one that
\* failed; when that request is the policy listing of the cleanup loop, the
\* applications the loop had not reached keep their policies and no DELETE
\* names them.  An HTTP error on a policy POST, a PUT or a DELETE leaves the run
\* going.
C9_FailureSemantics ==
  /\ (last.net = "HTTPError" /\ last.site \in ReadSites)
     => pc = "crashed" /\ fault = "TypeError"
  /\ (last.net = "HTTPError" /\ last.site \in WriteSites)
     => pc # "crashed" /\ fault = ""
  /\ pc = "crashed"
     => \/ last.ret = "raise"
        \/ last.ret = "None" /\ last.site \in ReadSites
  /\ (pc = "crashed" /\ last.site = "fx_app_policies")
     => \A a \in RangeOf(todo) :
          /\ HasApp(start, a) =>
                \A k \in 1..Len(AppOf(start, a).policies) :
                   HasPolicy(AppOf(apps, a).policies, AppOf(start, a).policies[k])
          /\ \A i \in 1..Len(calls) :
               calls[i].method = "DELETE" => calls[i].url.app # a

C9_Witness ==
  /\ pc = "crashed" /\ fault = "TypeError"
  /\ last.site = "fx_app_policies" /\ last.net = "HTTPError"
  /\ \E i \in 1..Len(calls) : calls[i].method = "DELETE"
  /\ \E a \in RangeOf(todo) : AnyNamed(AppOf(apps, a).policies, StaleName)

\* C10: the fixer issues no PUT, and every policy named "Allow Admins" or
\* "Allow Service" that an application had when the run started is still a policy
\* of that application, with the identifier, the decision and the include rule it
\* had.
C10_NeverUpdates ==
  script = "fix"
  => /\ \A i \in 1..Len(calls) : calls[i].method # "PUT"
     /\ \A j \in 1..Len(start) :
          \A k \in 1..Len(start[j].policies) :
             start[j].policies[k].name \in {AllowAdmins, AllowService} =>
                HasPolicy(AppOf(apps, start[j].id).policies, start[j].policies[k])

C10_Witness ==
  /\ script = "fix" /\ pc = "done"
  /\ studio_app # NoApp
  /\ HasApp(start, studio_app.id)
  /\ HasPolicy(AppOf(start, studio_app.id).policies,
               InitPolicy(1000 + 10 * studio_app.id + 1, AllowAdmins))
  /\ HasPolicy(AppOf(apps, studio_app.id).policies,
               InitPolicy(1000 + 10 * studio_app.id + 1, AllowAdmins))
  /\ CountNamed(AppOf(apps, studio_app.id).policies, AllowService) = 1
  /\ \E i \in 1..Len(calls) : calls[i].method = "DELETE"

====
